---- MODULE Spec2Model ----
(***************************************************************************)
(* ClopiNet sequence embedding (pyannote/audio/embedding/models/clopinet): *)
(* construction of the sub-layers from the configuration, the output_dim   *)
(* property and the forward pass, with tensors abstracted to their kind    *)
(* (dense or PackedSequence), shape, device and provenance.                *)
(*                                                                         *)
(* The module is in training mode throughout (the state nn.Module is in    *)
(* after construction; the source never leaves it).                        *)
(***************************************************************************)
EXTENDS Integers, Sequences, FiniteSets, TLC

\* ------------------------------------------------------------------ bounds

MaxFeatures == 2     \* n_features and input feature counts range over 1..MaxFeatures
MaxHidden == 2       \* hidden sizes range over 1..MaxHidden
MaxRecurrent == 2    \* longest recurrent-size list
MaxLinear == 1       \* longest linear-size list (Spec)
MaxAttention == 1    \* longest attention-size list (Spec)
MaxLayers == 2       \* longest linear- and attention-size list (SpecLayers)
MaxBatch == 2        \* batch sizes range over 1..MaxBatch
MaxTime == 2         \* sequence lengths range over 1..MaxTime
MaxCalls == 1        \* forward calls made on one module (Spec, SpecLayers)
MaxRepeat == 3       \* forward calls made on one module (SpecRepeat)

\* ------------------------------------------------------------ value spaces

SeqsUpTo(S, n) == UNION {[1..k -> S] : k \in 0..n}

HiddenDims == 1..MaxHidden

RnnKinds == {"LSTM", "GRU", "RNN"}
PoolingKinds == {"sum", "max", "avg"}
NormalizeKinds == {"False", "sphere", "ball", "ring"}
Devices == {"cpu", "cuda"}

\* The arguments of ClopiNet(...). linear=None / attention=None are the empty
\* list (lines 95-96).
\* Every option, with short linear and attention lists.
ArgSpace ==
    [n_features : {MaxFeatures},
     rnn : RnnKinds,
     recurrent : SeqsUpTo(HiddenDims, MaxRecurrent),
     bidirectional : BOOLEAN,
     pooling : PoolingKinds,
     instance_normalize : BOOLEAN,
     batch_normalize : BOOLEAN,
     normalize : NormalizeKinds,
     weighted : BOOLEAN,
     linear : SeqsUpTo(HiddenDims, MaxLinear),
     attention : SeqsUpTo(HiddenDims, MaxAttention)]

\* Every layer list, with the options that size no layer at their defaults
\* (line 80-82: rnn, pooling, instance_normalize, normalize).
LayerArgSpace ==
    [n_features : 1..MaxFeatures,
     rnn : {"LSTM"},
     recurrent : SeqsUpTo(HiddenDims, MaxRecurrent),
     bidirectional : BOOLEAN,
     pooling : {"sum"},
     instance_normalize : {FALSE},
     batch_normalize : BOOLEAN,
     normalize : {"False"},
     weighted : BOOLEAN,
     linear : SeqsUpTo(HiddenDims, MaxLayers),
     attention : SeqsUpTo(HiddenDims, MaxLayers)]

\* The options that decide which normalizers run and which calls fail, over
\* one recurrent layer.
RepeatArgSpace ==
    [n_features : {MaxFeatures},
     rnn : {"GRU"},
     recurrent : {<<MaxHidden>>},
     bidirectional : {TRUE},
     pooling : {"sum", "max"},
     instance_normalize : {FALSE},
     batch_normalize : BOOLEAN,
     normalize : NormalizeKinds,
     weighted : BOOLEAN,
     linear : {<<>>},
     attention : {<<>>}]

\* A forward argument: a dense (B, T, F) tensor, or a PackedSequence whose
\* data is (N, F), whose batch_sizes[0] is B and whose longest sequence is T.
InputSpace ==
    [kind : {"dense", "packed"},
     shape : {<<b, t, f>> : b \in 1..MaxBatch, t \in 1..MaxTime, f \in 1..MaxFeatures},
     device : Devices,
     src : {"input"}]

RECURSIVE SumSeq(_)
SumSeq(s) == IF s = <<>> THEN 0 ELSE Head(s) + SumSeq(Tail(s))

Last(s) == s[Len(s)]

\* An attribute that was never set on the module.
NoAttr == [cls |-> "absent"]

\* ------------------------------------------------------------ construction

\* RecurrentLoop chaining each layer to the previous hidden size alone,
\* without the bidirectional doubling
RECURSIVE RecurrentLoopNoDirs(_, _, _, _)
RecurrentLoopNoDirs(a, i, input_dim, layers) ==
    IF i > Len(a.recurrent) THEN [err |-> "none", layers |-> layers]
    ELSE IF a.rnn \notin {"LSTM", "GRU"}
         THEN [err |-> "ValueError: rnn", layers |-> layers]
         ELSE RecurrentLoopNoDirs(a, i + 1, a.recurrent[i],
                  Append(layers, [cls |-> a.rnn,
                                  input_size |-> input_dim,
                                  hidden_size |-> a.recurrent[i],
                                  bidirectional |-> a.bidirectional]))

\* lines 106-120: the recurrent loop, with its running input_dim
RECURSIVE RecurrentLoop(_, _, _, _)
RecurrentLoop(a, i, input_dim, layers) ==
    IF i > Len(a.recurrent) THEN [err |-> "none", layers |-> layers]
    ELSE IF a.rnn \notin {"LSTM", "GRU"}
         THEN [err |-> "ValueError: rnn", layers |-> layers]
         ELSE RecurrentLoop(a, i + 1,
                  a.recurrent[i] * (IF a.bidirectional THEN 2 ELSE 1),
                  Append(layers, [cls |-> a.rnn,
                                  input_size |-> input_dim,
                                  hidden_size |-> a.recurrent[i],
                                  bidirectional |-> a.bidirectional]))

\* lines 132-136 and 153-157: a stack of nn.Linear chained from input_dim
RECURSIVE LinearLoop(_, _, _, _)
LinearLoop(sizes, i, input_dim, layers) ==
    IF i > Len(sizes) THEN [input_dim |-> input_dim, layers |-> layers]
    ELSE LinearLoop(sizes, i + 1, sizes[i],
             Append(layers, [cls |-> "Linear",
                             in_features |-> input_dim,
                             out_features |-> sizes[i]]))

\* lines 147-162: the attention stack and its final scalar layer
AttentionLayers(a) ==
    IF a.attention = <<>> THEN <<>>
    ELSE LET r == LinearLoop(a.attention, 1, a.n_features, <<>>)
         IN  IF r.input_dim > 1
             THEN Append(r.layers, [cls |-> "Linear",
                                    in_features |-> r.input_dim,
                                    out_features |-> 1])
             ELSE r.layers

BatchNorm1d(n) == [cls |-> "BatchNorm1d", num_features |-> n, num_batches_tracked |-> 0]

\* lines 79-162: ClopiNet.__init__; err names the exception raised, if any
ClopiNetInit(a) ==
    IF a.pooling \notin {"sum", "max"}
    THEN [err |-> "ValueError: pooling", self |-> NoAttr]
    ELSE
    LET rec == RecurrentLoop(a, 1, a.n_features, <<>>)
        cat_dim == SumSeq(a.recurrent) * (IF a.bidirectional THEN 2 ELSE 1)
        lin == LinearLoop(a.linear, 1, cat_dim, <<>>)
    IN  IF rec.err # "none" THEN [err |-> rec.err, self |-> NoAttr]
        ELSE [err |-> "none",
              self |->
                [cls |-> "ClopiNet",
                 n_features |-> a.n_features,
                 rnn |-> a.rnn,
                 recurrent |-> a.recurrent,
                 bidirectional |-> a.bidirectional,
                 pooling |-> a.pooling,
                 instance_normalize |-> a.instance_normalize,
                 batch_normalize |-> a.batch_normalize,
                 normalize |-> a.normalize,
                 weighted |-> a.weighted,
                 linear |-> a.linear,
                 attention |-> a.attention,
                 num_directions_ |-> IF a.bidirectional THEN 2 ELSE 1,
                 recurrent_layers_ |-> rec.layers,
                 alphas_ |-> IF a.weighted
                             THEN [cls |-> "Parameter", size |-> cat_dim, device |-> "cpu"]
                             ELSE NoAttr,
                 linear_layers_ |-> lin.layers,
                 batch_norm_ |-> IF a.batch_normalize
                                 THEN BatchNorm1d(lin.input_dim) ELSE NoAttr,
                 norm_batch_norm_ |-> IF a.normalize \in {"ball", "ring"}
                                      THEN BatchNorm1d(1) ELSE NoAttr,
                 attention_layers_ |-> AttentionLayers(a)]]

\* output_dim reading the first linear size instead of the last
output_dim_first(self) ==
    IF self.linear # <<>> THEN Head(self.linear)
    ELSE SumSeq(self.recurrent) * (IF self.bidirectional THEN 2 ELSE 1)

\* lines 164-168: the output_dim property
output_dim(self) ==
    IF self.linear # <<>> THEN Last(self.linear)
    ELSE SumSeq(self.recurrent) * (IF self.bidirectional THEN 2 ELSE 1)

\* ------------------------------------------------------------- tensor ops

\* The module's parameters and buffers live where construction put them.
ModuleDevice == "cpu"

Tensor(kind, shape, device, src) ==
    [kind |-> kind, shape |-> shape, device |-> device, src |-> src]

Width(x) == x.shape[Len(x.shape)]

SetWidth(x, w, src) ==
    [x EXCEPT !.shape = [x.shape EXCEPT ![Len(x.shape)] = w], !.src = src]

\* Size of a broadcast dimension; 0 when the two sizes cannot be broadcast.
BroadcastDim(a, b) ==
    IF a = b THEN a ELSE IF a = 1 THEN b ELSE IF b = 1 THEN a ELSE 0

Step(op, i, x) == [op |-> op, i |-> i, width |-> Width(x), src |-> x.src, kind |-> x.kind]

Raise(st, e) == [st EXCEPT !.err = e]

\* nn.LSTM / nn.GRU called on x with an initial hidden state of shape hidden
ApplyRecurrent(layer, x, hidden) ==
    LET dirs == IF layer.bidirectional THEN 2 ELSE 1
    IN  IF x.device # ModuleDevice THEN [err |-> "RuntimeError: device"]
        ELSE IF Width(x) # layer.input_size THEN [err |-> "RuntimeError: size mismatch"]
        ELSE IF hidden # <<dirs, x.shape[1], layer.hidden_size>>
             THEN [err |-> "RuntimeError: hidden size"]
        ELSE [err |-> "none", out |-> SetWidth(x, layer.hidden_size * dirs, "recurrent")]

\* nn.Linear followed by tanh. A PackedSequence is no tensor: F.linear fails
\* on it (input.dim() in torch 0.4, an argument TypeError later), named here
\* by the former.
ApplyLinear(layer, x, src) ==
    IF x.kind = "packed" THEN [err |-> "AttributeError: PackedSequence"]
    ELSE IF x.device # ModuleDevice THEN [err |-> "RuntimeError: device"]
    ELSE IF Width(x) # layer.in_features THEN [err |-> "RuntimeError: size mismatch"]
    ELSE [err |-> "none", out |-> SetWidth(x, layer.out_features, src)]

\* nn.BatchNorm1d in training mode on a (B, C) tensor: one value per channel
\* is refused, otherwise the running statistics are updated
ApplyBatchNorm(bn, x) ==
    IF bn = NoAttr THEN [err |-> "AttributeError: no such attribute"]
    ELSE IF x.device # ModuleDevice THEN [err |-> "RuntimeError: device"]
    ELSE IF Len(x.shape) # 2 \/ x.shape[2] # bn.num_features
         THEN [err |-> "RuntimeError: size mismatch"]
    ELSE IF x.shape[1] = 1 THEN [err |-> "ValueError: Expected more than 1 value per channel"]
    ELSE [err |-> "none",
          out |-> [x EXCEPT !.src = "batch_norm"],
          bn |-> [bn EXCEPT !.num_batches_tracked = @ + 1]]

\* ----------------------------------------------------------------- forward

\* CheckFeatures checking the feature count of dense input only
CheckFeaturesDense(self, sequence) ==
    LET st == [err |-> "none", self |-> self,
               packed_sequences |-> sequence.kind = "packed",
               batch_size |-> sequence.shape[1],
               device |-> sequence.device,
               sequence |-> sequence, output |-> sequence,
               outputs |-> <<>>, trace |-> <<>>]
    IN  IF sequence.kind = "dense" /\ sequence.shape[3] # self.n_features
        THEN Raise(st, "ValueError: Wrong feature dimension")
        ELSE st

\* lines 172-187: read the input's sizes, check the feature count, and keep
\* the argument as the running output
CheckFeatures(self, sequence) ==
    LET st == [err |-> "none", self |-> self,
               packed_sequences |-> sequence.kind = "packed",
               batch_size |-> sequence.shape[1],
               device |-> sequence.device,
               sequence |-> sequence, output |-> sequence,
               outputs |-> <<>>, trace |-> <<>>]
    IN  IF sequence.shape[3] # self.n_features
        THEN Raise(st, "ValueError: Wrong feature dimension")
        ELSE st

\* lines 189-192: instance normalization rebinds `sequence`
InstanceNormalize(st) ==
    IF st.err # "none" \/ ~st.self.instance_normalize THEN st
    ELSE IF st.sequence.kind = "packed" THEN Raise(st, "AttributeError: PackedSequence")
    ELSE IF st.sequence.shape[2] = 1
         THEN Raise(st, "ValueError: Expected more than 1 value per channel")
    ELSE [st EXCEPT !.trace = Append(@, Step("instance_norm", 0, st.sequence)),
                    !.sequence = [@ EXCEPT !.src = "instance_norm"]]

\* MoveAlphas keeping whatever .to(device) returned as the attribute
MoveAlphasAssign(st) ==
    IF st.err # "none" \/ ~st.self.weighted THEN st
    ELSE IF st.self.alphas_ = NoAttr THEN Raise(st, "AttributeError: no such attribute")
    ELSE IF st.device # st.self.alphas_.device
         THEN [st EXCEPT !.self.alphas_ = [cls |-> "Tensor", size |-> st.self.alphas_.size,
                                           device |-> st.device]]
    ELSE st

\* lines 194-195: self.alphas_ = self.alphas_.to(device). Parameter.to returns
\* the parameter itself on its own device and a plain tensor on another one,
\* which nn.Module.__setattr__ refuses for a registered parameter.
MoveAlphas(st) ==
    IF st.err # "none" \/ ~st.self.weighted THEN st
    ELSE IF st.self.alphas_ = NoAttr THEN Raise(st, "AttributeError: no such attribute")
    ELSE IF st.device # st.self.alphas_.device
         THEN Raise(st, "TypeError: cannot assign as parameter")
    ELSE [st EXCEPT !.self.alphas_ = st.self.alphas_]

\* lines 197-218: the stacked recurrent layers, each fed the previous output
RECURSIVE RecurrentStack(_, _)
RecurrentStack(st, i) ==
    IF st.err # "none" THEN st
    ELSE IF i > Len(st.self.recurrent) \/ i > Len(st.self.recurrent_layers_) THEN st
    ELSE IF st.self.rnn \notin {"LSTM", "GRU"} THEN Raise(st, "UnboundLocalError: hidden")
    ELSE LET hidden == <<st.self.num_directions_, st.batch_size, st.self.recurrent[i]>>
             r == ApplyRecurrent(st.self.recurrent_layers_[i], st.output, hidden)
         IN  IF r.err # "none"
             THEN Raise([st EXCEPT !.trace = Append(@, Step("recurrent", i, st.output))], r.err)
             ELSE RecurrentStack(
                      [st EXCEPT !.trace = Append(@, Step("recurrent", i, st.output)),
                                 !.output = r.out,
                                 !.outputs = Append(@, r.out)], i + 1)

\* lines 220-222: pad_packed_sequence on every collected output
Unpack(st) ==
    IF st.err # "none" \/ ~st.packed_sequences THEN st
    ELSE IF st.outputs = <<>> THEN Raise(st, "ValueError: not enough values to unpack")
    ELSE [st EXCEPT !.outputs = [k \in 1..Len(st.outputs) |->
                                    [st.outputs[k] EXCEPT !.kind = "dense"]]]

\* Concatenate keeping the last recurrent output only
ConcatenateLast(st) ==
    IF st.err # "none" THEN st
    ELSE IF st.outputs = <<>> THEN Raise(st, "RuntimeError: cat of an empty list")
    ELSE [st EXCEPT !.output = SetWidth(st.outputs[Len(st.outputs)],
                                        Width(st.outputs[Len(st.outputs)]), "cat")]

\* line 225: torch.cat(outputs, dim=2)
Concatenate(st) ==
    IF st.err # "none" THEN st
    ELSE IF st.outputs = <<>> THEN Raise(st, "RuntimeError: cat of an empty list")
    ELSE LET widths == [k \in 1..Len(st.outputs) |-> Width(st.outputs[k])]
         IN  [st EXCEPT !.output = SetWidth(st.outputs[1], SumSeq(widths), "cat")]

\* lines 228-229: output * self.alphas_
Weight(st) ==
    IF st.err # "none" \/ ~st.self.weighted THEN st
    ELSE LET w == BroadcastDim(Width(st.output), st.self.alphas_.size)
         IN  IF w = 0
             THEN Raise([st EXCEPT !.trace = Append(@, Step("alphas_", 0, st.output))],
                        "RuntimeError: size mismatch")
             ELSE [st EXCEPT !.trace = Append(@, Step("alphas_", 0, st.output)),
                             !.output = SetWidth(st.output, w, "weighted")]

\* lines 232-238: the linear stack, each layer followed by tanh
RECURSIVE LinearStack(_, _)
LinearStack(st, i) ==
    IF st.err # "none" THEN st
    ELSE IF i > Len(st.self.linear) \/ i > Len(st.self.linear_layers_) THEN st
    ELSE LET r == ApplyLinear(st.self.linear_layers_[i], st.output, "linear")
             logged == [st EXCEPT !.trace = Append(@, Step("linear", i, st.output))]
         IN  IF r.err # "none" THEN Raise(logged, r.err)
             ELSE LinearStack([logged EXCEPT !.output = r.out], i + 1)

\* lines 244-247: the attention layers run over attn, zipped with attention + [1]
RECURSIVE AttentionStack(_, _, _)
AttentionStack(st, attn, i) ==
    IF st.err # "none" THEN [st |-> st, attn |-> attn]
    ELSE IF i > Len(st.self.attention_layers_) \/ i > Len(st.self.attention) + 1
         THEN [st |-> st, attn |-> attn]
    ELSE LET r == ApplyLinear(st.self.attention_layers_[i], attn, "attention")
             logged == [st EXCEPT !.trace = Append(@, Step("attention", i, attn))]
         IN  IF r.err # "none" THEN [st |-> Raise(logged, r.err), attn |-> attn]
             ELSE AttentionStack(logged, r.out, i + 1)

\* lines 242-254: attention weighting of the running output
Attention(st) ==
    IF st.err # "none" \/ st.self.attention_layers_ = <<>> THEN st
    ELSE LET a == AttentionStack(st, st.sequence, 1)
         IN  IF a.st.err # "none" THEN a.st
             ELSE IF st.packed_sequences
                  THEN Raise(a.st, "NotImplementedError: attention")
             ELSE LET w == BroadcastDim(Width(a.st.output), Width(a.attn))
                  IN  IF w = 0 THEN Raise(a.st, "RuntimeError: size mismatch")
                      ELSE [a.st EXCEPT !.output = SetWidth(a.st.output, w, "attended")]

\* a reduction over dim=1 of a (B, T, D) tensor
ReduceTime(x, src) == [x EXCEPT !.shape = <<x.shape[1], x.shape[3]>>, !.src = src]

\* lines 256-264: temporal pooling
Pooling(st) ==
    IF st.err # "none" THEN st
    ELSE IF st.self.pooling = "sum" THEN [st EXCEPT !.output = ReduceTime(st.output, "sum")]
    ELSE IF st.self.pooling = "max"
         THEN IF st.packed_sequences THEN Raise(st, "NotImplementedError: max pooling")
              ELSE [st EXCEPT !.output = ReduceTime(st.output, "max")]
    ELSE st

\* lines 268-270: batch normalization of the pooled embedding
BatchNormalize(st) ==
    IF st.err # "none" \/ ~st.self.batch_normalize THEN st
    ELSE LET r == ApplyBatchNorm(st.self.batch_norm_, st.output)
             logged == [st EXCEPT !.trace = Append(@, Step("batch_norm_", 0, st.output))]
         IN  IF r.err # "none" THEN Raise(logged, r.err)
             ELSE [logged EXCEPT !.output = r.out, !.self.batch_norm_ = r.bn]

\* one call self.norm_batch_norm_(norm)
NormBatchNorm(st, norm, i) ==
    IF st.err # "none" THEN st
    ELSE LET r == ApplyBatchNorm(st.self.norm_batch_norm_, norm)
             logged == [st EXCEPT !.trace = Append(@, Step("norm_batch_norm_", i, norm))]
         IN  IF r.err # "none" THEN Raise(logged, r.err)
             ELSE [logged EXCEPT !.self.norm_batch_norm_ = r.bn]

\* Normalize applying the norm normalizer once in 'ring' mode too
NormalizeRingOnce(st) ==
    IF st.err # "none" \/ st.self.normalize = "False" THEN st
    ELSE LET norm == [st.output EXCEPT !.shape = [@ EXCEPT ![2] = 1], !.src = "norm"]
             scaled(s) == IF s.err # "none" THEN s
                          ELSE [s EXCEPT !.output.src = st.self.normalize]
         IN  IF st.self.normalize = "sphere" THEN scaled(st)
             ELSE IF st.self.normalize \in {"ball", "ring"}
                  THEN scaled(NormBatchNorm(st, norm, 1))
             ELSE st

\* lines 272-283: embedding normalization
Normalize(st) ==
    IF st.err # "none" \/ st.self.normalize = "False" THEN st
    ELSE LET norm == [st.output EXCEPT !.shape = [@ EXCEPT ![2] = 1], !.src = "norm"]
             scaled(s) == IF s.err # "none" THEN s
                          ELSE [s EXCEPT !.output.src = st.self.normalize]
         IN  IF st.self.normalize = "sphere" THEN scaled(st)
             ELSE IF st.self.normalize = "ball" THEN scaled(NormBatchNorm(st, norm, 1))
             ELSE IF st.self.normalize = "ring"
                  THEN scaled(NormBatchNorm(NormBatchNorm(st, norm, 1), norm, 2))
             ELSE st

\* lines 170-287: ClopiNet.forward
forward(self, sequence) ==
    Normalize(BatchNormalize(Pooling(Attention(LinearStack(Weight(Concatenate(Unpack(
        RecurrentStack(MoveAlphas(InstanceNormalize(CheckFeatures(self, sequence))), 1)))),
        1)))))

\* ------------------------------------------------------------ state machine

\* budget is the caller's: how many more times it calls forward.
VARIABLES
    args,     \* the arguments ClopiNet(...) is called with
    self,     \* the module's attributes; NoAttr until construction completes
    last,     \* the last call made and how it ended
    budget    \* forward calls the caller has still to make

vars == <<args, self, last, budget>>

NoTensor == Tensor("none", <<>>, "none", "none")

Call(op, err, input, value, trace) ==
    [op |-> op, err |-> err, input |-> input, value |-> value, trace |-> trace]

NoCall == Call("none", "none", NoTensor, NoTensor, <<>>)

Init ==
    /\ args \in ArgSpace
    /\ self = NoAttr
    /\ last = NoCall
    /\ budget = MaxCalls

InitLayers ==
    /\ args \in LayerArgSpace
    /\ self = NoAttr
    /\ last = NoCall
    /\ budget = MaxCalls

InitRepeat ==
    /\ args \in RepeatArgSpace
    /\ self = NoAttr
    /\ last = NoCall
    /\ budget = MaxRepeat

\* model = ClopiNet(**args)
Construct ==
    /\ last.op = "none"
    /\ LET r == ClopiNetInit(args)
       IN  /\ self' = r.self
           /\ last' = Call("__init__", r.err, NoTensor, NoTensor, <<>>)
    /\ UNCHANGED <<args, budget>>

\* model.output_dim
OutputDim ==
    /\ self # NoAttr
    /\ last' = Call("output_dim", "none", NoTensor,
                    Tensor("int", <<output_dim(self)>>, "none", "none"), <<>>)
    /\ UNCHANGED <<args, self, budget>>

\* model(sequence); what forward did to the module stays when it raises
Forward ==
    /\ self # NoAttr
    /\ budget > 0
    /\ \E sequence \in InputSpace :
         LET st == forward(self, sequence)
         IN  /\ self' = st.self
             /\ last' = Call("forward", st.err, sequence,
                             IF st.err = "none" THEN st.output ELSE NoTensor, st.trace)
    /\ budget' = budget - 1
    /\ UNCHANGED args

Next == Construct \/ OutputDim \/ Forward

Spec == Init /\ [][Next]_vars

SpecLayers == InitLayers /\ [][Next]_vars

SpecRepeat == InitRepeat /\ [][Next]_vars

\* ------------------------------------------------------------------ claims

Dirs(a) == IF a.bidirectional THEN 2 ELSE 1

CatDim(a) == SumSeq(a.recurrent) * Dirs(a)

\* how many steps of a forward call applied the sub-layer op
Applied(trace, op) == Cardinality({k \in 1..Len(trace) : trace[k].op = op})

Returned == last.op = "forward" /\ last.err = "none"

NotImplementedErrors == {"NotImplementedError: attention", "NotImplementedError: max pooling"}

\* C1: output_dim is the last linear size when the linear list is non-empty
\* and otherwise sum(recurrent) times 2 if bidirectional else 1, whatever the
\* other arguments are and whether or not forward has been called.
C1_OutputDim ==
    last.op = "output_dim" =>
        last.value.shape =
            << IF Len(args.linear) > 0 THEN args.linear[Len(args.linear)]
               ELSE CatDim(args) >>

C1_Witness ==
    /\ last.op = "output_dim"
    /\ budget = MaxCalls
    /\ Len(args.linear) = 2
    /\ args.linear[1] # args.linear[2]
    /\ args.linear[2] # CatDim(args)
    /\ last.value.shape = <<args.linear[2]>>

\* C2: a forward call on a dense (B, T, n_features) input that returns,
\* returns a tensor of shape (B, output_dim).
C2_ForwardShape ==
    (Returned /\ last.input.kind = "dense") =>
        last.value.shape = <<last.input.shape[1], output_dim(self)>>

C2_Witness ==
    /\ Returned
    /\ last.input.kind = "dense"
    /\ Len(self.recurrent) = 2
    /\ self.bidirectional
    /\ self.weighted
    /\ self.linear # <<>>
    /\ self.attention # <<>>
    /\ self.instance_normalize
    /\ self.batch_normalize
    /\ self.normalize = "ring"
    /\ self.pooling = "max"
    /\ last.value.shape = <<2, Last(self.linear)>>

\* C3: a forward call whose input feature count differs from n_features ends
\* in the dimension-mismatch ValueError, for dense and packed input alike,
\* before any sub-layer or normalizer is applied, and yields no output.
C3_FeatureMismatch ==
    (last.op = "forward" /\ last.input.shape[3] # self.n_features) =>
        /\ last.err = "ValueError: Wrong feature dimension"
        /\ last.trace = <<>>
        /\ last.value = NoTensor

C3_Witness ==
    /\ last.op = "forward"
    /\ last.input.kind = "packed"
    /\ last.input.shape[3] # self.n_features
    /\ self.instance_normalize
    /\ self.batch_normalize
    /\ last.err = "ValueError: Wrong feature dimension"

\* C4: with a non-empty attention list, every forward call on a packed input
\* of the right feature count ends in the not-implemented error. Stated for
\* the plainest case: at least one recurrent layer, no instance
\* normalization, the input on the module's device.
C4_AttentionPacked ==
    (/\ last.op = "forward"
     /\ self.attention # <<>>
     /\ self.recurrent # <<>>
     /\ ~self.instance_normalize
     /\ last.input.kind = "packed"
     /\ last.input.device = ModuleDevice
     /\ last.input.shape[3] = self.n_features)
        => last.err \in NotImplementedErrors

\* C5: with pooling 'max', every forward call on a packed input of the right
\* feature count ends in the not-implemented error, whatever
\* instance_normalize, weighted, linear and normalize are. Stated for at
\* least one recurrent layer, no attention, the input on the module's device.
C5_MaxPoolingPacked ==
    (/\ last.op = "forward"
     /\ self.pooling = "max"
     /\ self.recurrent # <<>>
     /\ self.attention = <<>>
     /\ last.input.kind = "packed"
     /\ last.input.device = ModuleDevice
     /\ last.input.shape[3] = self.n_features)
        => last.err \in NotImplementedErrors

\* C6: construction with a cell kind outside {LSTM, GRU} raises ValueError
\* and leaves no module, whatever the recurrent-size list is.
C6_InvalidRnn ==
    (last.op # "none" /\ args.rnn \notin {"LSTM", "GRU"}) =>
        /\ self = NoAttr
        /\ last.op = "__init__"
        /\ last.err \in {"ValueError: rnn", "ValueError: pooling"}

\* C7: with instance normalization on, the first recurrent layer is fed the
\* instance-normalized sequence and the first attention layer the original
\* input.
C7_InstanceNormFeeds ==
    (last.op = "forward" /\ self.instance_normalize) =>
        \A k \in 1..Len(last.trace) :
            /\ (last.trace[k].op = "recurrent" /\ last.trace[k].i = 1)
                   => last.trace[k].src = "instance_norm"
            /\ (last.trace[k].op = "attention" /\ last.trace[k].i = 1)
                   => last.trace[k].src = "input"

\* a normalizer with its running statistics set aside
WithoutStats(bn) == IF bn = NoAttr THEN bn ELSE [bn EXCEPT !.num_batches_tracked = 0]

Frozen(m) ==
    [m EXCEPT !.batch_norm_ = WithoutStats(@), !.norm_batch_norm_ = WithoutStats(@)]

Tracked(bn) == IF bn = NoAttr THEN 0 ELSE bn.num_batches_tracked

\* C8: after any sequence of forward calls the module is as construction
\* left it, the normalizers' running statistics aside: configuration,
\* sub-layer collections and the alphas_ parameter are unchanged.
C8_ForwardFrame ==
    self # NoAttr => Frozen(self) = ClopiNetInit(args).self

C8_Witness ==
    /\ Returned
    /\ budget = 0
    /\ self.weighted
    /\ Tracked(self.batch_norm_) >= 2
    /\ Tracked(self.norm_batch_norm_) >= 2

C10_NormalizerCalls ==
    [][ (last'.op = "forward" /\ budget' = budget - 1) =>
          LET bn == Applied(last'.trace, "batch_norm_")
              nbn == Applied(last'.trace, "norm_batch_norm_")
          IN  /\ last'.err = "none" =>
                    /\ bn = (IF self.batch_normalize THEN 1 ELSE 0)
                    /\ nbn = (IF self.normalize = "ball" THEN 1
                              ELSE IF self.normalize = "ring" THEN 2 ELSE 0)
                    /\ Tracked(self'.batch_norm_) = Tracked(self.batch_norm_) + bn
                    /\ Tracked(self'.norm_batch_norm_) = Tracked(self.norm_batch_norm_) + nbn
              /\ last'.err \in NotImplementedErrors \cup {"ValueError: Wrong feature dimension"} =>
                    /\ bn = 0
                    /\ nbn = 0
                    /\ self' = self ]_vars

C10_Witness ==
    /\ Returned
    /\ self.batch_normalize
    /\ self.normalize = "ring"
    /\ Applied(last.trace, "norm_batch_norm_") = 2
    /\ Applied(last.trace, "batch_norm_") = 1
    /\ Tracked(self.norm_batch_norm_) = 4
    /\ Tracked(self.batch_norm_) = 2

====
